---- MODULE Spec2Model ----
(***************************************************************************)
(* Model of the currency service layer                                     *)
(* (backend/app/services/currency_service.py, backend/app/core/config.py). *)
(*                                                                         *)
(* Every public coroutine is a call in a slot of Calls.  A call is cut     *)
(* into one action per stretch of code between two awaits: the event loop  *)
(* runs such a stretch without interruption, and every requests / vendor / *)
(* smtplib call is a blocking call inside a stretch.  The effect of an     *)
(* awaited store operation takes place in the action that resumes the      *)
(* coroutine after it.                                                     *)
(*                                                                         *)
(* Rates are floats in the code; the model uses integers around the        *)
(* fallback constant, which keeps the order (<) the code decides on.       *)
(***************************************************************************)
EXTENDS Integers, Sequences, FiniteSets, TLC

\* ---------------------------------------------------------------- bounds
MaxCalls == 2          \* compute calls in one behaviour of the store model
MaxPipelineCalls == 1  \* compute calls in one behaviour of the pipeline model
MaxSettings == 2       \* rows of the NotificationSetting collection
MaxUsers == 2          \* documents of the User collection
MaxTime == 1           \* last value of the wall clock

\* ------------------------------------------------------------- constants
FALLBACK_AVG == 1250 \* the literal 1250.0 of _api_timeseries_avg_3y

Calls == 1..MaxCalls          \* the compute_and_store / compute_store_and_notify calls
QuerySlot == MaxCalls + 1     \* the get_latest_stat_or_live call under way
Slots == Calls \cup {QuerySlot}
Users == 1..MaxUsers
NoUser == 0          \* a NotificationSetting whose user attribute is None
Currencies == {"USD", "KRW"}
NoneArg == "None"    \* the default None of the base / target parameters
Rates == {FALLBACK_AVG - 50, FALLBACK_AVG, FALLBACK_AVG + 50}

\* settings = Settings() of config.py: the attributes the service reads.
\* ALPHA_VANTAGE_API_KEY is commented out in the class (config.py line 28)
\* and model_config has extra="ignore", so the object has no such attribute.
settings ==
    [ DEFAULT_BASE_CURRENCY |-> "USD",
      DEFAULT_TARGET_CURRENCY |-> "KRW",
      CURRENCY_API_BASE |-> "https://v6.exchangerate-api.com/v6",
      SMTP_HOST |-> "smtp.gmail.com",
      SMTP_FROM |-> "FX Alert <noreply@example.com>",
      SMTP_TLS |-> TRUE ]

HasSetting(name) == name \in DOMAIN settings

VARIABLES
    store,        \* the rate_stats collection: RateStat rows in insertion order
    clock,        \* the last value datetime.utcnow() returned
    outbox,       \* the messages handed to SMTP sendmail, in order
    pc,           \* position of each call
    op,           \* the coroutine each call runs
    args,         \* the (base, target) each call was given
    stat,         \* local stat of compute_and_store / compute_store_and_notify
    subs,         \* local subs of notify_if_low
    recipients,   \* local users of notify_if_low
    user_ids,     \* local user_ids of notify_if_low
    result,       \* the dict get_latest_stat_or_live returned
    seen,         \* the store contents the query of get_latest_stat_or_live read
    inserted,     \* per call: its stat.insert() has completed
    trace         \* per call: what it did (external calls, lookups, failures)

vars == << store, clock, outbox, pc, op, args, stat, subs, recipients,
           user_ids, result, seen, inserted, trace >>

\* ------------------------------------------------------------ data model
\* class RateStat(Document)
RateStat(base, target, current, avg3, status, at) ==
    [ base |-> base, target |-> target, current_rate |-> current,
      avg_3y |-> avg3, status |-> status, calculated_at |-> at ]

NoStat == RateStat("-", "-", 0, 0, "-", 0)

\* datetime.isoformat(): a string, not the datetime itself
isoformat(t) == [ iso |-> t ]

NoResult ==
    [ base |-> "-", target |-> "-", current_rate |-> 0, avg_3y |-> 0,
      status |-> "-", last_updated |-> isoformat(0), source |-> "-" ]

\* User.email
EmailOf(u) == [ mailbox |-> u ]

\* What a call did, kept for the properties until the call is over: the
\* answer the current-rate request got, whether the history averager ran,
\* whether its vendor path failed and what it returned, the store lookups of
\* the notifier, what utcnow() returned to the call, the recipient whose
\* send raised and how.
NoTrace ==
    [ latest_kind |-> "-", avg_calls |-> 0, avg_failed |-> FALSE,
      avg_returned |-> 0, lookups |-> 0, utcnow |-> 0,
      failed_at |-> 0, failure |-> "-" ]

\* ------------------------------------------------------ external answers
\* What the exchangerate-api request of _api_latest can come back with.
LatestAnswers ==
    { [ kind |-> "ok", rate |-> r ] : r \in Rates }
    \cup { [ kind |-> "http_error", rate |-> 0 ],
           [ kind |-> "missing_key", rate |-> 0 ] }

\* What the Alpha Vantage call of _api_timeseries_avg_3y can come back with.
VendorAnswers ==
    { [ kind |-> "series", mean |-> r ] : r \in Rates }
    \cup { [ kind |-> "exception", mean |-> 0 ],
           [ kind |-> "empty", mean |-> 0 ],
           [ kind |-> "no_3y_data", mean |-> 0 ] }

\* What one _send_email can do: deliver, fail before sendmail (connect,
\* starttls, login, sendmail), or fail in server.quit() after sendmail.
SmtpFailures == { "before_send", "in_quit" }

\* ------------------------------------------------------- pure functions
Returned(v) == [ raised |-> FALSE, value |-> v ]
Raised == [ raised |-> TRUE, value |-> 0 ]

\* _api_latest with the failure swallowed: a default rate instead of raising.
_api_latest_default(answer) ==
    IF answer.kind = "ok" THEN [ raised |-> FALSE, value |-> answer.rate ]
    ELSE [ raised |-> FALSE, value |-> 0 ]

\* _api_latest: raise_for_status() raises on an HTTP error, the subscript
\* data["conversion_rates"][target] raises KeyError on a missing key.
_api_latest(answer) ==
    IF answer.kind = "ok" THEN Returned(answer.rate) ELSE Raised

\* The cases in which _api_timeseries_avg_3y does not get to its mean: the
\* attribute error on the key, an exception of the vendor call or of the
\* data handling, an empty answer, no row inside the 3-year window.
HistoryFails(vendor) ==
    \/ ~HasSetting("ALPHA_VANTAGE_API_KEY")
    \/ vendor.kind \in { "exception", "empty", "no_3y_data" }

\* _api_timeseries_avg_3y without its except / fallback branches: a failure
\* propagates.
_api_timeseries_avg_3y_raising(vendor) ==
    IF HistoryFails(vendor) THEN [ raised |-> TRUE, value |-> 0 ]
    ELSE [ raised |-> FALSE, value |-> vendor.mean ]

\* _api_timeseries_avg_3y: the whole body is inside try / except Exception,
\* and every except / empty branch returns the literal 1250.0.  Reading
\* settings.ALPHA_VANTAGE_API_KEY (first statement of the try) raises
\* AttributeError when the settings object has no such attribute.
_api_timeseries_avg_3y(vendor) ==
    IF ~HasSetting("ALPHA_VANTAGE_API_KEY") THEN Returned(FALLBACK_AVG)
    ELSE IF vendor.kind = "exception" THEN Returned(FALLBACK_AVG)
    ELSE IF vendor.kind = "empty" THEN Returned(FALLBACK_AVG)
    ELSE IF vendor.kind = "no_3y_data" THEN Returned(FALLBACK_AVG)
    ELSE Returned(vendor.mean)

\* The comparison with <= in place of <.
Classify_lte(current, avg3) == IF current <= avg3 THEN "LOW" ELSE "HIGH"

\* status = "LOW" if current < avg3 else "HIGH"
Classify(current, avg3) == IF current < avg3 THEN "LOW" ELSE "HIGH"

\* base = base or settings.DEFAULT_BASE_CURRENCY
ResolveBase(base) ==
    IF base = NoneArg THEN settings.DEFAULT_BASE_CURRENCY ELSE base

\* target = target or settings.DEFAULT_TARGET_CURRENCY
ResolveTarget(target) ==
    IF target = NoneArg THEN settings.DEFAULT_TARGET_CURRENCY ELSE target

\* An insert keyed by (base, target): a row of the same pair is replaced.
Insert_upsert(rows, s) ==
    IF \E i \in 1..Len(rows) : rows[i].base = s.base /\ rows[i].target = s.target
    THEN [ i \in 1..Len(rows) |->
             IF rows[i].base = s.base /\ rows[i].target = s.target
             THEN s ELSE rows[i] ]
    ELSE Append(rows, s)

\* await stat.insert(): a new document of the collection
Insert(rows, s) == Append(rows, s)

\* The query with the target filter left out.
Find_base_only(rows, base, target) ==
    { i \in 1..Len(rows) : rows[i].base = base }

\* RateStat.find({"base": base, "target": target}): the matching rows
Find(rows, base, target) ==
    { i \in 1..Len(rows) : rows[i].base = base /\ rows[i].target = target }

\* The query without its sort: the row inserted last.
LastInserted(rows, hits) ==
    { i \in hits : \A j \in hits : j <= i }

\* .sort(-RateStat.calculated_at).first_or_none(): the rows the sorted query
\* can put first (rows of equal calculated_at come in any order)
FirstByCalculatedAtDesc(rows, hits) ==
    { i \in hits : \A j \in hits : rows[j].calculated_at <= rows[i].calculated_at }

\* NotificationSetting.find(NotificationSetting.is_active == True).to_list()
ActiveSubs(rows) == SelectSeq(rows, LAMBDA s : s.is_active)

\* user_ids = [s.user.id for s in subs if getattr(s, "user", None)]
RECURSIVE UserIds(_)
UserIds(found) ==
    IF found = << >> THEN << >>
    ELSE IF Head(found).user # NoUser
         THEN << Head(found).user >> \o UserIds(Tail(found))
         ELSE UserIds(Tail(found))

Range(f) == { f[i] : i \in DOMAIN f }

\* One user record per entry of user_ids, in that order: a user with two
\* active settings comes twice.
FindUsers_per_id(ids) == { ids }

\* User.find(In(User.id, user_ids)).to_list(): each User document whose id
\* is among user_ids, once, in the order the store returns them
FindUsers(ids) ==
    { order \in UNION { [1..n -> Users] : n \in 0..MaxUsers } :
        /\ Range(order) = Range(ids) \cap Users
        /\ \A i, j \in DOMAIN order : i # j => order[i] # order[j] }

\* _send_email: the message is handed over by server.sendmail; the finally
\* clause runs server.quit() after it, which can raise as well
_send_email(box, to_email, c, failure) ==
    IF failure = "before_send" THEN box
    ELSE Append(box, [ to |-> to_email, call |-> c ])

\* The loop with each send in its own try / except: it goes on after a
\* send that raised.
RECURSIVE SendLoop_isolated(_, _, _, _, _, _)
SendLoop_isolated(box, users, i, c, failAt, failure) ==
    IF i > Len(users) THEN box
    ELSE SendLoop_isolated(
             IF i = failAt /\ failure = "before_send" THEN box
             ELSE Append(box, [ to |-> [ mailbox |-> users[i] ], call |-> c ]),
             users, i + 1, c, failAt, failure)

\* for u in users: _send_email(u.email, subject, body)
\* failAt = 0: no send fails; failAt = N: the N-th send raises and ends the loop
RECURSIVE SendLoop(_, _, _, _, _, _)
SendLoop(box, users, i, c, failAt, failure) ==
    IF i > Len(users) THEN box
    ELSE IF i = failAt THEN _send_email(box, EmailOf(users[i]), c, failure)
    ELSE SendLoop(_send_email(box, EmailOf(users[i]), c, "none"),
                  users, i + 1, c, failAt, failure)

\* ------------------------------------------------------------ the state
\* A NotificationSetting row: its user (NoUser when the attribute is None
\* or missing) and its is_active flag.
SettingRows == [ user : Users \cup {NoUser}, is_active : BOOLEAN ]
RowKey(s) == 2 * s.user + (IF s.is_active THEN 1 ELSE 0)

\* The contents the NotificationSetting collection can have when the
\* notifier reads it.  The collection is written elsewhere; the notifier
\* never uses the order of its rows, so each content is listed in one order.
SettingCollections ==
    { rows \in UNION { [1..n -> SettingRows] : n \in 0..MaxSettings } :
        \A i \in 1..(Len(rows) - 1) : RowKey(rows[i]) <= RowKey(rows[i + 1]) }

Init ==
    /\ store = << >>
    /\ clock = 0
    /\ outbox = << >>
    /\ pc = [ c \in Slots |-> "idle" ]
    /\ op = [ c \in Slots |-> "-" ]
    /\ args = [ c \in Slots |-> << "-", "-" >> ]
    /\ stat = [ c \in Slots |-> NoStat ]
    /\ subs = [ c \in Slots |-> << >> ]
    /\ recipients = [ c \in Slots |-> << >> ]
    /\ user_ids = [ c \in Slots |-> << >> ]
    /\ result = [ c \in Slots |-> NoResult ]
    /\ seen = [ c \in Slots |-> << >> ]
    /\ inserted = [ c \in Slots |-> FALSE ]
    /\ trace = [ c \in Slots |-> NoTrace ]

\* Compute calls take their slots in order: slot c starts after slot c - 1
\* has.  get_latest_stat_or_live is a single stretch of code, so one slot
\* serves all its calls, one after the other.
CanStart(c) ==
    /\ pc[c] = "idle"
    /\ c \in Calls => (c > 1 => pc[c - 1] # "idle")

\* ----------------------------------------------------------- the actions
\* datetime.utcnow(): a value not before the last one returned.
Utcnow == clock..MaxTime

\* compute_and_store up to its await (also the first stretch of
\* compute_store_and_notify, which awaits compute_and_store at once):
\* resolve the defaults, fetch the current rate, fetch the average, classify,
\* construct the RateStat (calculated_at = utcnow by default_factory).
\* An exception of either fetch leaves the coroutine.
compute_and_store(c, o, base, target, latest, vendor, now) ==
    /\ c \in Calls
    /\ CanStart(c)
    /\ now \in Utcnow
    /\ LET b == ResolveBase(base)
           t == ResolveTarget(target)
           current == _api_latest(latest)
           avg3 == _api_timeseries_avg_3y(vendor)
           began == [ trace[c] EXCEPT !.latest_kind = latest.kind ]
           averaged == [ began EXCEPT !.avg_calls = 1,
                                      !.avg_failed = HistoryFails(vendor) ]
       IN  /\ op' = [ op EXCEPT ![c] = o ]
           /\ args' = [ args EXCEPT ![c] = << base, target >> ]
           /\ IF current.raised
              THEN /\ pc' = [ pc EXCEPT ![c] = "raised" ]
                   /\ trace' = [ trace EXCEPT ![c] = began ]
                   /\ UNCHANGED << stat, clock >>
              ELSE IF avg3.raised
              THEN /\ pc' = [ pc EXCEPT ![c] = "raised" ]
                   /\ trace' = [ trace EXCEPT ![c] = averaged ]
                   /\ UNCHANGED << stat, clock >>
              ELSE /\ pc' = [ pc EXCEPT ![c] = "insert" ]
                   /\ trace' = [ trace EXCEPT ![c] =
                                   [ averaged EXCEPT !.avg_returned = avg3.value,
                                                     !.utcnow = now ] ]
                   /\ clock' = now
                   /\ stat' = [ stat EXCEPT ![c] =
                                  RateStat(b, t, current.value, avg3.value,
                                           Classify(current.value, avg3.value),
                                           now) ]
    /\ UNCHANGED << store, outbox, subs, recipients, user_ids, result, seen,
                    inserted >>

\* notify_if_low without its first statement.
NotifyEntry_unconditional(s) == "find_subs"

\* notify_if_low, first statement: if stat.status != "LOW": return;
\* otherwise the coroutine awaits the NotificationSetting query.
NotifyEntry(s) == IF s.status # "LOW" THEN "done" ELSE "find_subs"

\* The coroutine resumes after await stat.insert(): the row is in the store.
\* compute_and_store returns stat; compute_store_and_notify goes on into
\* notify_if_low(stat).
stat_insert(c) ==
    /\ pc[c] = "insert"
    /\ store' = Insert(store, stat[c])
    /\ inserted' = [ inserted EXCEPT ![c] = TRUE ]
    /\ pc' = [ pc EXCEPT ![c] =
                 IF op[c] = "compute_and_store" THEN "done"
                 ELSE NotifyEntry(stat[c]) ]
    /\ UNCHANGED << clock, outbox, op, args, stat, subs, recipients,
                    user_ids, result, seen, trace >>

\* notify_if_low after the NotificationSetting query (rows: what the
\* collection holds): return when the query gave no row or no row has a
\* user, otherwise await the User query.
notify_find_subs(c, rows) ==
    /\ pc[c] = "find_subs"
    /\ LET found == ActiveSubs(rows)
           ids == UserIds(found)
       IN  /\ subs' = [ subs EXCEPT ![c] = found ]
           /\ user_ids' = [ user_ids EXCEPT ![c] = ids ]
           /\ pc' = [ pc EXCEPT ![c] =
                        IF found = << >> THEN "done"
                        ELSE IF ids = << >> THEN "done"
                        ELSE "find_users" ]
    /\ trace' = [ trace EXCEPT ![c].lookups = @ + 1 ]
    /\ UNCHANGED << store, clock, outbox, op, args, stat, recipients,
                    result, seen, inserted >>

\* notify_if_low after the User query: the send loop.  smtplib is blocking,
\* so the loop runs to its end, or to the first send that raises.
notify_send(c, users, failAt, failure) ==
    /\ pc[c] = "find_users"
    /\ users \in FindUsers(user_ids[c])
    /\ failAt \in 0..Len(users)
    /\ recipients' = [ recipients EXCEPT ![c] = users ]
    /\ outbox' = SendLoop(outbox, users, 1, c, failAt, failure)
    /\ pc' = [ pc EXCEPT ![c] = IF failAt = 0 THEN "done" ELSE "raised" ]
    /\ trace' = [ trace EXCEPT ![c] =
                    [ @ EXCEPT !.lookups = @ + 1,
                               !.failed_at = failAt,
                               !.failure = IF failAt = 0 THEN "-" ELSE failure ] ]
    /\ UNCHANGED << store, clock, op, args, stat, subs, user_ids, result,
                    seen, inserted >>

\* What get_latest_stat_or_live does to the call after its query: answer
\* from the first row of the sorted query, or, with no row, fetch, average
\* and classify.
GetLatestEffects(c, base, target, latest, vendor, now) ==
    /\ c = QuerySlot
    /\ CanStart(c)
    /\ now \in Utcnow
    /\ op' = [ op EXCEPT ![c] = "get_latest_stat_or_live" ]
    /\ args' = [ args EXCEPT ![c] = << base, target >> ]
    /\ seen' = [ seen EXCEPT ![c] = store ]
    /\ LET hits == Find(store, base, target)
           current == _api_latest(latest)
           avg3 == _api_timeseries_avg_3y(vendor)
           began == trace[c]
           fetched == [ began EXCEPT !.latest_kind = latest.kind ]
           averaged == [ fetched EXCEPT !.avg_calls = 1,
                                        !.avg_failed = HistoryFails(vendor) ]
       IN  IF hits # {}
           THEN /\ \E i \in FirstByCalculatedAtDesc(store, hits) :
                     result' = [ result EXCEPT ![c] =
                        [ base |-> base, target |-> target,
                          current_rate |-> store[i].current_rate,
                          avg_3y |-> store[i].avg_3y,
                          status |-> store[i].status,
                          last_updated |-> isoformat(store[i].calculated_at),
                          source |-> "db-cache" ] ]
                /\ pc' = [ pc EXCEPT ![c] = "done" ]
                /\ trace' = [ trace EXCEPT ![c] = began ]
                /\ clock' = clock
           ELSE IF current.raised
           THEN /\ pc' = [ pc EXCEPT ![c] = "raised" ]
                /\ trace' = [ trace EXCEPT ![c] = fetched ]
                /\ UNCHANGED << result, clock >>
           ELSE IF avg3.raised
           THEN /\ pc' = [ pc EXCEPT ![c] = "raised" ]
                /\ trace' = [ trace EXCEPT ![c] = averaged ]
                /\ UNCHANGED << result, clock >>
           ELSE /\ pc' = [ pc EXCEPT ![c] = "done" ]
                /\ trace' = [ trace EXCEPT ![c] =
                                [ averaged EXCEPT !.avg_returned = avg3.value,
                                                  !.utcnow = now ] ]
                /\ clock' = now
                /\ result' = [ result EXCEPT ![c] =
                     [ base |-> base, target |-> target,
                       current_rate |-> current.value,
                       avg_3y |-> avg3.value,
                       status |-> Classify(current.value, avg3.value),
                       last_updated |-> isoformat(now),
                       source |-> "live" ] ]

\* get_latest_stat_or_live persisting what it computed live.
get_latest_stat_or_live_persisting(c, base, target, latest, vendor, now) ==
    /\ GetLatestEffects(c, base, target, latest, vendor, now)
    /\ store' = IF pc'[c] = "done" /\ result'[c].source = "live"
                THEN Append(store, RateStat(base, target, result'[c].current_rate,
                                            result'[c].avg_3y, result'[c].status, now))
                ELSE store
    /\ UNCHANGED << outbox, stat, subs, recipients, user_ids, inserted >>

\* get_latest_stat_or_live: nothing but the call itself changes.
get_latest_stat_or_live(c, base, target, latest, vendor, now) ==
    /\ GetLatestEffects(c, base, target, latest, vendor, now)
    /\ UNCHANGED << store, outbox, stat, subs, recipients, user_ids, inserted >>

\* The value (or the exception) reaches the caller and the coroutine's
\* frame is gone; pc keeps how a compute call ended.
Return(c) ==
    /\ pc[c] \in { "done", "raised" }
    /\ pc' = [ pc EXCEPT ![c] = IF c = QuerySlot THEN "idle"
                               ELSE IF pc[c] = "done" THEN "returned"
                               ELSE "failed" ]
    /\ stat' = [ stat EXCEPT ![c] = NoStat ]
    /\ subs' = [ subs EXCEPT ![c] = << >> ]
    /\ recipients' = [ recipients EXCEPT ![c] = << >> ]
    /\ user_ids' = [ user_ids EXCEPT ![c] = << >> ]
    /\ result' = [ result EXCEPT ![c] = NoResult ]
    /\ seen' = [ seen EXCEPT ![c] = << >> ]
    /\ args' = [ args EXCEPT ![c] = << "-", "-" >> ]
    /\ trace' = [ trace EXCEPT ![c] = NoTrace ]
    /\ UNCHANGED << store, clock, outbox, op, inserted >>

\* ------------------------------------------------------ specifications
\* The store model: concurrent compute_and_store calls and
\* get_latest_stat_or_live calls over several currency pairs.  The pairs are
\* the default pair (both arguments None), the swapped pair and the pair of
\* the default base with another target.  A get_latest_stat_or_live call
\* hands its result to its caller before the next step of another call.
PipelineCalls == 1..MaxPipelineCalls
StoreArgs == { << NoneArg, NoneArg >>, << "KRW", "USD" >>, << NoneArg, "USD" >> }
StorePairs == { << ResolveBase(a[1]), ResolveTarget(a[2]) >> : a \in StoreArgs }
StoreLatest == { a \in LatestAnswers : a.kind # "missing_key" /\ a.rate # FALLBACK_AVG }
StoreVendor == { a \in VendorAnswers : a.kind = "empty" \/ a.mean = FALLBACK_AVG + 50 }
QueryOver == pc[QuerySlot] = "idle"

NextStore ==
    \/ \E c \in Calls, a \in StoreArgs, latest \in StoreLatest,
          vendor \in StoreVendor, now \in 0..MaxTime :
            /\ QueryOver
            /\ compute_and_store(c, "compute_and_store", a[1], a[2], latest,
                                 vendor, now)
    \/ \E c \in Calls : QueryOver /\ stat_insert(c)
    \/ \E p \in StorePairs, latest \in StoreLatest, vendor \in StoreVendor,
          now \in 0..MaxTime :
            get_latest_stat_or_live(QuerySlot, p[1], p[2], latest, vendor, now)
    \/ Return(QuerySlot)

SpecStore == Init /\ [][NextStore]_vars

\* The pipeline model: compute_and_store, compute_store_and_notify and
\* get_latest_stat_or_live on the default pair, one call after the other (the
\* scheduled job), with every answer of the two rate services, every content
\* of the NotificationSetting collection and every outcome of the SMTP sends.
NoCallUnderWay == \A c \in Slots : pc[c] \in { "idle", "returned", "failed" }

Next ==
    \/ \E c \in PipelineCalls,
          o \in { "compute_and_store", "compute_store_and_notify" },
          latest \in LatestAnswers, vendor \in VendorAnswers :
            /\ NoCallUnderWay
            /\ compute_and_store(c, o, NoneArg, NoneArg, latest, vendor, clock)
    \/ \E c \in PipelineCalls : stat_insert(c)
    \/ \E c \in PipelineCalls, rows \in SettingCollections :
            notify_find_subs(c, rows)
    \/ \E c \in PipelineCalls, failure \in SmtpFailures :
          \E users \in FindUsers(user_ids[c]) :
            \E failAt \in 0..Len(users) :
               notify_send(c, users, failAt, failure)
    \/ \E latest \in LatestAnswers, vendor \in VendorAnswers :
            /\ NoCallUnderWay
            /\ get_latest_stat_or_live(QuerySlot, settings.DEFAULT_BASE_CURRENCY,
                                       settings.DEFAULT_TARGET_CURRENCY, latest,
                                       vendor, clock)
    \/ \E c \in PipelineCalls \cup {QuerySlot} : Return(c)

Spec == Init /\ [][Next]_vars

\* ---------------------------------------------------------- properties
FetchErrors == { "http_error", "missing_key" }

\* The messages call c handed to SMTP, in order.
SentBy(c) == SelectSeq(outbox, LAMBDA m : m.call = c)

\* The number of messages of call c addressed to user u.
SentTo(c, u) == Len(SelectSeq(outbox, LAMBDA m : m.call = c /\ m.to = EmailOf(u)))

\* The rows of a store content that belong to the pair (base, target).
RowsOfPair(rows, base, target) ==
    { i \in 1..Len(rows) : rows[i].base = base /\ rows[i].target = target }

LowIffBelow(status, current, avg3) ==
    \/ status = "LOW" /\ current < avg3
    \/ status = "HIGH" /\ ~(current < avg3)

\* C1: every persisted record, and every result of the live path of
\* get_latest_stat_or_live, has status LOW if and only if current_rate is
\* strictly below avg_3y, and HIGH otherwise (so a tie gives HIGH).
C1_StatusLowIffBelowAverage ==
    /\ \A i \in 1..Len(store) :
         LowIffBelow(store[i].status, store[i].current_rate, store[i].avg_3y)
    /\ \A c \in Slots :
         /\ pc[c] = "insert" =>
              LowIffBelow(stat[c].status, stat[c].current_rate, stat[c].avg_3y)
         /\ result[c].source = "live" =>
              LowIffBelow(result[c].status, result[c].current_rate, result[c].avg_3y)

\* A record whose current_rate equals its avg_3y is in the store, as HIGH.
C1_Witness ==
    \E i \in 1..Len(store) :
        /\ store[i].current_rate = store[i].avg_3y
        /\ store[i].status = "HIGH"

\* C2 (as claimed): every compute_and_store call persists exactly one record:
\* once no insert is pending, the store holds one row per call made.
C2_OneRowPerCall ==
    (\A c \in Calls : pc[c] # "insert")
        => Len(store) = Cardinality({ c \in Calls : pc[c] # "idle" })

\* C2 (amended): under any interleaving, the store holds exactly one row per
\* compute_and_store call that got past its insert, each call's own row
\* (its resolved base / target, calculated_at the time the call read) with
\* none dropped, merged or overwritten; a call whose current-rate fetch
\* failed has inserted none.
C2_OneRowPerReturnedCall ==
    /\ Len(store) = Cardinality({ c \in Calls : pc[c] = "done" })
    /\ \A c \in Calls :
         /\ pc[c] = "done" =>
              /\ stat[c].base = ResolveBase(args[c][1])
              /\ stat[c].target = ResolveTarget(args[c][2])
              /\ stat[c].calculated_at = trace[c].utcnow
              /\ Cardinality({ i \in 1..Len(store) : store[i] = stat[c] })
                   = Cardinality({ d \in Calls : pc[d] = "done" /\ stat[d] = stat[c] })
         /\ pc[c] = "raised" => ~inserted[c]

\* Two calls for the same pair that read the same time have both returned,
\* and the store holds their two equal rows.
C2_Witness ==
    /\ Len(store) = 2
    /\ store[1] = store[2]
    /\ \A c \in { 1, 2 } : pc[c] = "done" /\ stat[c] = store[1]

\* C3: get_latest_stat_or_live answers "db-cache" if and only if the store
\* it read holds a row of exactly the requested base and target, "live"
\* otherwise, whatever rows of other pairs there are; with such a row it
\* always answers.
C3_SourceIffRowOfPair ==
    LET q == QuerySlot
        own == RowsOfPair(seen[q], args[q][1], args[q][2])
    IN  /\ pc[q] = "done" =>
             /\ result[q].source \in { "db-cache", "live" }
             /\ result[q].source = "db-cache" <=> own # {}
        /\ pc[q] = "raised" => own = {}

\* A "live" answer for a pair while the store holds a row of the same base
\* with another target and a row of the swapped pair.
C3_Witness ==
    LET q == QuerySlot
    IN  /\ pc[q] = "done"
        /\ result[q].source = "live"
        /\ \E i, j \in 1..Len(seen[q]) :
             /\ seen[q][i].base = args[q][1] /\ seen[q][i].target # args[q][2]
             /\ seen[q][j].base = args[q][2] /\ seen[q][j].target = args[q][1]
             /\ seen[q][j].base # seen[q][j].target

\* C4: an answer from the store carries the current_rate, avg_3y, status
\* and last_updated of a row of greatest calculated_at among the rows of the
\* requested pair in the store it read, whatever the insertion order.
C4_AnswerIsLatestRow ==
    LET q == QuerySlot
        own == RowsOfPair(seen[q], args[q][1], args[q][2])
    IN  (pc[q] = "done" /\ result[q].source = "db-cache") =>
            \E i \in own :
                /\ \A j \in own : seen[q][j].calculated_at <= seen[q][i].calculated_at
                /\ result[q].current_rate = seen[q][i].current_rate
                /\ result[q].avg_3y = seen[q][i].avg_3y
                /\ result[q].status = seen[q][i].status
                /\ result[q].last_updated = isoformat(seen[q][i].calculated_at)
                /\ result[q].base = args[q][1]
                /\ result[q].target = args[q][2]

\* The store holds two rows of the pair, the later one inserted first and
\* with another rate, and the answer is the later one.
C4_Witness ==
    LET q == QuerySlot
    IN  /\ pc[q] = "done"
        /\ result[q].source = "db-cache"
        /\ Len(seen[q]) = 2
        /\ seen[q][1].base = seen[q][2].base
        /\ seen[q][1].target = seen[q][2].target
        /\ seen[q][1].calculated_at > seen[q][2].calculated_at
        /\ seen[q][1].current_rate # seen[q][2].current_rate
        /\ result[q].current_rate = seen[q][1].current_rate

\* C5: a get_latest_stat_or_live step leaves the store and the outbox as
\* they are, on both paths; after a "live" answer the store still holds no
\* row of the pair, so the next call for the pair is answered "live" again.
C5_GetLatestLeavesStore ==
    [][ LET q == QuerySlot
        IN  (pc[q] = "idle" /\ pc'[q] # "idle") =>
                /\ store' = store
                /\ outbox' = outbox
                /\ inserted' = inserted
                /\ (pc'[q] = "done" /\ result'[q].source = "live") =>
                       RowsOfPair(store', args'[q][1], args'[q][2]) = {} ]_vars

\* A "live" answer has been given and the store holds no row.
C5_Witness ==
    /\ pc[QuerySlot] = "done"
    /\ result[QuerySlot].source = "live"
    /\ store = << >>
    /\ seen[QuerySlot] = << >>

\* C6: with a HIGH stat notify_if_low does nothing: no subscriber or user
\* lookup, no email; compute_store_and_notify has persisted the record and
\* returns.
C6_HighIsNoOp ==
    \A c \in Calls :
        (op[c] = "compute_store_and_notify" /\ inserted[c] /\ stat[c].status = "HIGH") =>
            /\ pc[c] = "done"
            /\ trace[c].lookups = 0
            /\ SentBy(c) = << >>
            /\ \E i \in 1..Len(store) : store[i] = stat[c]

\* compute_store_and_notify has persisted a record whose current_rate
\* equals its avg_3y and is over without an email.
C6_Witness ==
    \E c \in Calls :
        /\ op[c] = "compute_store_and_notify"
        /\ pc[c] = "done"
        /\ stat[c].status = "HIGH"
        /\ stat[c].current_rate = stat[c].avg_3y
        /\ store = << stat[c] >>
        /\ outbox = << >>

\* C7 (as claimed): with a LOW stat and no failing send, one email for each
\* active NotificationSetting, addressed to that setting's user, and none to
\* a user without an active setting.
C7_OneEmailPerActiveSetting ==
    \A c \in Calls :
        (op[c] = "compute_store_and_notify" /\ pc[c] = "done"
           /\ stat[c].status = "LOW") =>
            /\ Len(SentBy(c)) = Len(subs[c])
            /\ \A u \in Users :
                 SentTo(c, u) = Len(SelectSeq(subs[c], LAMBDA r : r.user = u))

\* C7 (amended): with a LOW stat and no failing send, exactly one email to
\* each distinct user that an active NotificationSetting names, however
\* many active settings name that user, none for an active setting without
\* a user and none to any other user; with no active setting the notifier
\* returns after its first query without an email.
C7_OneEmailPerSubscribedUser ==
    \A c \in Calls :
        (op[c] = "compute_store_and_notify" /\ pc[c] = "done"
           /\ stat[c].status = "LOW") =>
            LET named == { u \in Users : \E k \in 1..Len(subs[c]) : subs[c][k].user = u }
            IN  /\ \A u \in Users : SentTo(c, u) = IF u \in named THEN 1 ELSE 0
                /\ Len(SentBy(c)) = Cardinality(named)
                /\ subs[c] = << >> => trace[c].lookups = 1

\* Two active settings of two users: each user got one email.
C7_Witness ==
    \E c \in Calls :
        /\ pc[c] = "done"
        /\ stat[c].status = "LOW"
        /\ Len(subs[c]) = 2
        /\ subs[c][1].user # subs[c][2].user
        /\ subs[c][1].user # NoUser
        /\ Len(SentBy(c)) = 2

\* C8: when the send to the N-th recipient raises, the call raises, the
\* recipients before N have each got their one email, in order, no
\* recipient after N has got one, nothing is sent twice, and the record
\* persisted before the notify pass is still in the store.
C8_SmtpFailureEndsLoop ==
    \A c \in Calls :
        trace[c].failed_at > 0 =>
            LET n == trace[c].failed_at
                sent == SentBy(c)
            IN  /\ pc[c] = "raised"
                /\ n <= Len(recipients[c])
                /\ Len(sent) = IF trace[c].failure = "in_quit" THEN n ELSE n - 1
                /\ \A k \in 1..Len(sent) : sent[k].to = EmailOf(recipients[c][k])
                /\ inserted[c]
                /\ \E i \in 1..Len(store) : store[i] = stat[c]

\* The send to the first of two recipients raised before sendmail: the
\* call has raised, the second recipient has got no email, and the record
\* is in the store.
C8_Witness ==
    \E c \in Calls :
        /\ pc[c] = "raised"
        /\ trace[c].failed_at = 1
        /\ trace[c].failure = "before_send"
        /\ Len(recipients[c]) = 2
        /\ SentTo(c, recipients[c][2]) = 0
        /\ store = << stat[c] >>

\* C9: when the current-rate fetch fails the call raises at once: the
\* history averager is not called, no record is constructed or inserted, no
\* lookup is made and no email is sent.
C9_FetchFailurePropagates ==
    /\ \A c \in Calls :
         trace[c].latest_kind \in FetchErrors =>
            /\ pc[c] = "raised"
            /\ trace[c].avg_calls = 0
            /\ stat[c] = NoStat
            /\ ~inserted[c]
            /\ trace[c].lookups = 0
            /\ SentBy(c) = << >>
    /\ Len(store) = Cardinality({ c \in Calls : inserted[c] })

\* compute_store_and_notify raised on a response without the target key.
C9_Witness ==
    \E c \in Calls :
        /\ op[c] = "compute_store_and_notify"
        /\ trace[c].latest_kind = "missing_key"
        /\ pc[c] = "raised"
        /\ store = << >>

\* C10: a failure inside the history averager never raises: the averager
\* returns 1250, the call goes on to its insert, and the record has
\* avg_3y = 1250 and status LOW iff current_rate < 1250.
C10_HistoryFailureFallsBack ==
    \A c \in Slots :
        (trace[c].avg_calls = 1 /\ trace[c].avg_failed) =>
            /\ trace[c].avg_returned = 1250
            /\ c \in Calls =>
                 /\ pc[c] = "insert" \/ inserted[c]
                 /\ stat[c].avg_3y = 1250
                 /\ stat[c].status = "LOW" <=> stat[c].current_rate < 1250
                 /\ inserted[c] => \E i \in 1..Len(store) : store[i] = stat[c]
            /\ c = QuerySlot =>
                 /\ pc[c] = "done"
                 /\ result[c].avg_3y = 1250

\* A vendor failure happened and the record, LOW against 1250, is stored.
C10_Witness ==
    \E c \in Calls :
        /\ trace[c].avg_failed
        /\ pc[c] = "done"
        /\ inserted[c]
        /\ stat[c].avg_3y = 1250
        /\ stat[c].status = "LOW"
        /\ store = << stat[c] >>

====
